---- MODULE Spec2Model ----
(***************************************************************************)
(* Model of script.js: the Earth Engine script that derives, per pixel, a  *)
(* yearly series of forest cover (fc), forest loss (fl), carbon stock (cb) *)
(* and carbon emissions (ce), converts the bands to hectares and sums them *)
(* per region.                                                             *)
(*                                                                         *)
(* A raster is a function from Pixels to a value; a masked (undefined)     *)
(* pixel holds Undef.  All defined values of the script are non-negative.  *)
(* A band is a record [name, px]; a band name 'fc'+2001 is the tuple       *)
(* <<"fc", 2001, 0>>, the last component being the suffix addBands gives a *)
(* band whose name is already taken (0: no suffix).  An image is a         *)
(* sequence of bands.                                                      *)
(*                                                                         *)
(* Biomass is kept in fixed point: agb is in t/ha, bgb and tbcarbon in     *)
(* 1/1000 t/ha and 1/2000 t/ha, teco2 in 1/200000 t/ha.                    *)
(***************************************************************************)
EXTENDS Integers, Sequences, FiniteSets

\* ---- bounds of the model ----
NumPixels == 2
MaxYr == 2002

\* ---- program constants ----
Epoch == 2000
HaDivisor == 10000
BgbCoef == 489
Co2Coef == 367
LatestYr == 2021
Undef == 0 - 1

Pixels == 1..NumPixels
\* the user input tried: every period within MaxYr with the threshold of the
\* script (yr_end < yr_str included), a threshold above 100, and a start year
\* before the epoch of the loss-year raster
Configs ==
    {[tree_cover |-> 30, yr_str |-> s, yr_end |-> e] : s \in Epoch..MaxYr, e \in Epoch..MaxYr}
    \cup {[tree_cover |-> 101, yr_str |-> Epoch, yr_end |-> MaxYr],
          [tree_cover |-> 30, yr_str |-> Epoch - 1, yr_end |-> Epoch]}

TreeCoverVals == {29, 30}
LossYearVals == {Undef} \cup (0..(MaxYr - Epoch))

VARIABLES tree_cover, yr_str, yr_end, treecover2000, lossyear, agb,
          tbcarbon, teco2, fc_str, fl_stack, fc_stack, cb_stack, ce_stack,
          output, pixelArea, areas, stats, k, pc

vars == <<tree_cover, yr_str, yr_end, treecover2000, lossyear, agb,
          tbcarbon, teco2, fc_str, fl_stack, fc_stack, cb_stack, ce_stack,
          output, pixelArea, areas, stats, k, pc>>

\* ---- the raster algebra the script calls ----
Defined(v) == v # Undef

Constant(c) == [p \in Pixels |-> c]

\* img.gte(c): 1/0 where img is defined, masked where it is not
Gte(px, c) == [p \in Pixels |-> IF Defined(px[p]) THEN (IF px[p] >= c THEN 1 ELSE 0) ELSE Undef]

Eq(px, c) == [p \in Pixels |-> IF Defined(px[p]) THEN (IF px[p] = c THEN 1 ELSE 0) ELSE Undef]

Neq(px, c) == [p \in Pixels |-> IF Defined(px[p]) THEN (IF px[p] # c THEN 1 ELSE 0) ELSE Undef]

\* img.unmask(c): masked pixels take the value c
Unmask(px, c) == [p \in Pixels |-> IF Defined(px[p]) THEN px[p] ELSE c]

\* img.updateMask(m): a pixel stays defined where m is defined and non-zero
UpdateMask(px, m) == [p \in Pixels |-> IF Defined(px[p]) /\ Defined(m[p]) /\ m[p] # 0 THEN px[p] ELSE Undef]

\* img.multiply(other): defined where both are
Multiply(px, other) == [p \in Pixels |-> IF Defined(px[p]) /\ Defined(other[p]) THEN px[p] * other[p] ELSE Undef]

Divide(px, c) == [p \in Pixels |-> IF Defined(px[p]) THEN px[p] \div c ELSE Undef]

Name(prefix, y) == <<prefix, y, 0>>

Band(n, px) == [name |-> n, px |-> px]

Names(img) == {img[i].name : i \in 1..Len(img)}

HasBand(img, n) == n \in Names(img)

\* img.select(name): the band of that name
Select(img, n) == img[CHOOSE i \in 1..Len(img) : img[i].name = n]

\* ee.Image().select(): an image with no band
EmptyImage == << >>

Suffix(img, n) == IF HasBand(img, n) THEN <<n[1], n[2], 1 + Cardinality({m \in Names(img) : m[1] = n[1] /\ m[2] = n[2] /\ m[3] > 0})>> ELSE n

\* img.addBands(b): appends, never overwrites; a taken name gets a suffix
AddBand(img, b) == Append(img, Band(Suffix(img, b.name), b.px))

RECURSIVE AddBands(_, _)
AddBands(img, src) == IF src = << >> THEN img ELSE AddBands(AddBand(img, Head(src)), Tail(src))

\* ---- the derived rasters, one definition per statement of the script ----

\* BIO**(0.89), exact on the biomass values of the model (0 and 1)
Pow089(x) == IF x = 0 THEN 0 ELSE 1

\* 0.489 * BIO**(0.89), in 1/1000 t/ha
Bgb == [p \in Pixels |-> IF Defined(agb[p]) THEN BgbCoef * Pow089(agb[p]) ELSE Undef]

\* (bgb + abg) * 0.5, in 1/2000 t/ha
TbCarbon == [p \in Pixels |-> IF Defined(Bgb[p]) /\ Defined(agb[p]) THEN Bgb[p] + 1000 * agb[p] ELSE Undef]

\* totalcarbon * 3.67, in 1/200000 t/ha
TeCo2(tbc) == [p \in Pixels |-> IF Defined(tbc[p]) THEN tbc[p] * Co2Coef ELSE Undef]

\* forest cover at the starting date
FcStr == Band(Name("fc", yr_str),
              UpdateMask(UpdateMask(Constant(1), Gte(treecover2000, tree_cover)),
                         Unmask(Gte(lossyear, yr_str - Epoch + 1), 1)))

\* slip: the loss loops start at the baseline year
LoopFirstAtBaseline == yr_str - Epoch

LoopFirst == yr_str - Epoch + 1

CbLoopFirst == yr_str - Epoch

LoopLast == yr_end - Epoch

\* slip: loss is taken wherever the raster records it, not within the baseline
FlBandAnyLoss(kk) == Band(Name("fl", kk + Epoch), UpdateMask(Constant(1), Eq(lossyear, kk)))

\* slip: loss is cumulative (lossyear >= k) instead of the loss of year k
FlBandCumulative(kk) == Band(Name("fl", kk + Epoch), UpdateMask(fc_str.px, Gte(lossyear, kk)))

\* the loss band of loop index kk
FlBand(kk) == Band(Name("fl", kk + Epoch), UpdateMask(fc_str.px, Eq(lossyear, kk)))

\* slip: the pixels lost in the year are kept and the others dropped
FcBandKeepsLost(kk) == Band(Name("fc", kk + Epoch),
                            UpdateMask(Select(fc_stack, Name("fc", kk + Epoch - 1)).px,
                                       Eq(Unmask(Select(fl_stack, Name("fl", kk + Epoch)).px, 0), 1)))

\* slip: the year's mask is cut from a constant image, not from last year's band
FcBandFromConstant(kk) == Band(Name("fc", kk + Epoch),
                               UpdateMask(Constant(1),
                                          Neq(Unmask(Select(fl_stack, Name("fl", kk + Epoch)).px, 0), 1)))

\* slip: undefined loss defaults to 1 (lost) as in the baseline's unmask(1)
FcBandUnmaskOne(kk) == Band(Name("fc", kk + Epoch),
                            UpdateMask(Select(fc_stack, Name("fc", kk + Epoch - 1)).px,
                                       Neq(Unmask(Select(fl_stack, Name("fl", kk + Epoch)).px, 1), 1)))

\* the forest cover band of loop index kk
FcBand(kk) == Band(Name("fc", kk + Epoch),
                   UpdateMask(Select(fc_stack, Name("fc", kk + Epoch - 1)).px,
                              Neq(Unmask(Select(fl_stack, Name("fl", kk + Epoch)).px, 0), 1)))

\* slip: carbon is masked by the baseline band instead of the year's band
CbBandOfBaseline(kk) == Band(Name("cb", kk + Epoch), UpdateMask(tbcarbon, Eq(fc_str.px, 1)))

\* the carbon stock band of loop index kk
CbBand(kk) == Band(Name("cb", kk + Epoch),
                   UpdateMask(tbcarbon, Eq(Select(fc_stack, Name("fc", kk + Epoch)).px, 1)))

\* the emission band of loop index kk
CeBand(kk) == Band(Name("ce", kk + Epoch),
                   UpdateMask(teco2, Eq(Select(fl_stack, Name("fl", kk + Epoch)).px, 1)))

\* the multilayer stack
Output == AddBands(AddBands(AddBands(fc_stack, fl_stack), cb_stack), ce_stack)

\* ee.Image.pixelArea().divide(10000)
PixelAreaHa(area) == Divide(area, HaDivisor)

\* slip: only the density bands (cb, ce) are converted
AreasOfDensityBands(img, area) ==
    [i \in 1..Len(img) |-> IF img[i].name[1] \in {"cb", "ce"}
                           THEN Band(img[i].name, Multiply(img[i].px, Divide(area, HaDivisor)))
                           ELSE img[i]]

\* output.multiply(...): every band of the stack is multiplied
Areas(img, area) == [i \in 1..Len(img) |-> Band(img[i].name, Multiply(img[i].px, PixelAreaHa(area)))]

\* the regions of the study area: the sets of pixels their geometries cover
sa_area == <<Pixels, {1}>>

RECURSIVE SumOver(_, _)
SumOver(px, S) == IF S = {} THEN 0
                  ELSE LET p == CHOOSE q \in S : TRUE
                       IN (IF Defined(px[p]) THEN px[p] ELSE 0) + SumOver(px, S \ {p})

\* reduceRegions with ee.Reducer.sum(): one row per region, one column per band
ReduceRegions(img, regions) ==
    [r \in 1..Len(regions) |-> [i \in 1..Len(img) |-> [name |-> img[i].name, sum |-> SumOver(img[i].px, regions[r])]]]

\* ---- the user input and the datasets ----
\* canopy cover rasters tried: just below or at the threshold of the script at
\* each pixel, or masked at the first pixel
TreeCoverRasters == [Pixels -> TreeCoverVals] \cup {[p \in Pixels |-> IF p = 1 THEN Undef ELSE 30]}

\* biomass rasters tried: defined everywhere, or masked at the first pixel
AgbRasters == {Constant(1), [p \in Pixels |-> IF p = 1 THEN Undef ELSE 1]}

\* pixel areas (m2) tried: the same everywhere, or growing with the pixel index
PixelAreaRasters == {Constant(20000), [p \in Pixels |-> 10000 * p]}

Init ==
    /\ \E c \in Configs :
          /\ tree_cover = c.tree_cover
          /\ yr_str = c.yr_str
          /\ yr_end = c.yr_end
    /\ treecover2000 \in TreeCoverRasters
    /\ lossyear \in [Pixels -> LossYearVals]
    /\ agb \in AgbRasters
    /\ tbcarbon = Constant(Undef)
    /\ teco2 = Constant(Undef)
    /\ fc_str = Band(Name("none", 0), Constant(Undef))
    /\ fl_stack = EmptyImage
    /\ fc_stack = EmptyImage
    /\ cb_stack = EmptyImage
    /\ ce_stack = EmptyImage
    /\ output = EmptyImage
    /\ pixelArea = Constant(0)
    /\ areas = EmptyImage
    /\ stats = << >>
    /\ k = 0
    /\ pc = "biomass"

\* ---- the statements of the script, in program order ----
Biomass ==
    /\ pc = "biomass"
    /\ tbcarbon' = TbCarbon
    /\ teco2' = TeCo2(TbCarbon)
    /\ pc' = "baseline"
    /\ UNCHANGED <<tree_cover, yr_str, yr_end, treecover2000, lossyear, agb, fc_str,
                   fl_stack, fc_stack, cb_stack, ce_stack, output, pixelArea, areas, stats, k>>

Baseline ==
    /\ pc = "baseline"
    /\ fc_str' = FcStr
    /\ pc' = "fl_init"
    /\ UNCHANGED <<tree_cover, yr_str, yr_end, treecover2000, lossyear, agb, tbcarbon, teco2,
                   fl_stack, fc_stack, cb_stack, ce_stack, output, pixelArea, areas, stats, k>>

FlInit ==
    /\ pc = "fl_init"
    /\ fl_stack' = EmptyImage
    /\ k' = LoopFirst
    /\ pc' = "fl_loop"
    /\ UNCHANGED <<tree_cover, yr_str, yr_end, treecover2000, lossyear, agb, tbcarbon, teco2,
                   fc_str, fc_stack, cb_stack, ce_stack, output, pixelArea, areas, stats>>

FlStep ==
    /\ pc = "fl_loop"
    /\ k <= LoopLast
    /\ fl_stack' = AddBand(fl_stack, FlBand(k))
    /\ k' = k + 1
    /\ UNCHANGED <<tree_cover, yr_str, yr_end, treecover2000, lossyear, agb, tbcarbon, teco2,
                   fc_str, fc_stack, cb_stack, ce_stack, output, pixelArea, areas, stats, pc>>

FcInit ==
    /\ pc = "fl_loop"
    /\ k > LoopLast
    /\ fc_stack' = <<fc_str>>
    /\ k' = LoopFirst
    /\ pc' = "fc_loop"
    /\ UNCHANGED <<tree_cover, yr_str, yr_end, treecover2000, lossyear, agb, tbcarbon, teco2,
                   fc_str, fl_stack, cb_stack, ce_stack, output, pixelArea, areas, stats>>

FcStep ==
    /\ pc = "fc_loop"
    /\ k <= LoopLast
    /\ HasBand(fc_stack, Name("fc", k + Epoch - 1))
    /\ HasBand(fl_stack, Name("fl", k + Epoch))
    /\ fc_stack' = AddBand(fc_stack, FcBand(k))
    /\ k' = k + 1
    /\ UNCHANGED <<tree_cover, yr_str, yr_end, treecover2000, lossyear, agb, tbcarbon, teco2,
                   fc_str, fl_stack, cb_stack, ce_stack, output, pixelArea, areas, stats, pc>>

CbInit ==
    /\ pc = "fc_loop"
    /\ k > LoopLast
    /\ cb_stack' = EmptyImage
    /\ k' = CbLoopFirst
    /\ pc' = "cb_loop"
    /\ UNCHANGED <<tree_cover, yr_str, yr_end, treecover2000, lossyear, agb, tbcarbon, teco2,
                   fc_str, fl_stack, fc_stack, ce_stack, output, pixelArea, areas, stats>>

CbStep ==
    /\ pc = "cb_loop"
    /\ k <= LoopLast
    /\ HasBand(fc_stack, Name("fc", k + Epoch))
    /\ cb_stack' = AddBand(cb_stack, CbBand(k))
    /\ k' = k + 1
    /\ UNCHANGED <<tree_cover, yr_str, yr_end, treecover2000, lossyear, agb, tbcarbon, teco2,
                   fc_str, fl_stack, fc_stack, ce_stack, output, pixelArea, areas, stats, pc>>

CeInit ==
    /\ pc = "cb_loop"
    /\ k > LoopLast
    /\ ce_stack' = EmptyImage
    /\ k' = LoopFirst
    /\ pc' = "ce_loop"
    /\ UNCHANGED <<tree_cover, yr_str, yr_end, treecover2000, lossyear, agb, tbcarbon, teco2,
                   fc_str, fl_stack, fc_stack, cb_stack, output, pixelArea, areas, stats>>

CeStep ==
    /\ pc = "ce_loop"
    /\ k <= LoopLast
    /\ HasBand(fl_stack, Name("fl", k + Epoch))
    /\ ce_stack' = AddBand(ce_stack, CeBand(k))
    /\ k' = k + 1
    /\ UNCHANGED <<tree_cover, yr_str, yr_end, treecover2000, lossyear, agb, tbcarbon, teco2,
                   fc_str, fl_stack, fc_stack, cb_stack, output, pixelArea, areas, stats, pc>>

Combine ==
    /\ pc = "ce_loop"
    /\ k > LoopLast
    /\ output' = Output
    /\ pc' = "areas"
    /\ UNCHANGED <<tree_cover, yr_str, yr_end, treecover2000, lossyear, agb, tbcarbon, teco2,
                   fc_str, fl_stack, fc_stack, cb_stack, ce_stack, pixelArea, areas, stats, k>>

ComputeAreas ==
    /\ pc = "areas"
    /\ \E area \in PixelAreaRasters :
          /\ pixelArea' = area
          /\ areas' = Areas(output, area)
    /\ pc' = "stats"
    /\ UNCHANGED <<tree_cover, yr_str, yr_end, treecover2000, lossyear, agb, tbcarbon, teco2,
                   fc_str, fl_stack, fc_stack, cb_stack, ce_stack, output, stats, k>>

ComputeStats ==
    /\ pc = "stats"
    /\ stats' = ReduceRegions(areas, sa_area)
    /\ pc' = "done"
    /\ UNCHANGED <<tree_cover, yr_str, yr_end, treecover2000, lossyear, agb, tbcarbon, teco2,
                   fc_str, fl_stack, fc_stack, cb_stack, ce_stack, output, pixelArea, areas, k>>

Next ==
    \/ Biomass
    \/ Baseline
    \/ FlInit
    \/ FlStep
    \/ FcInit
    \/ FcStep
    \/ CbInit
    \/ CbStep
    \/ CeInit
    \/ CeStep
    \/ Combine
    \/ ComputeAreas
    \/ ComputeStats

Spec == Init /\ [][Next]_vars

\* ---- the properties ----
ValidConfig ==
    /\ tree_cover >= 0 /\ tree_cover <= 100
    /\ yr_str >= Epoch /\ yr_end <= LatestYr
    /\ yr_str <= yr_end

BaselineBuilt == pc \notin {"biomass", "baseline"}

Finished == pc = "done"

\* the pixel is defined in band n of img
DefAt(img, n, p) == HasBand(img, n) /\ Defined(Select(img, n).px[p])

InBaseline(p) == Defined(fc_str.px[p])

FcYears == yr_str..yr_end

FlYears == (yr_str + 1)..yr_end

NoLossUpTo(p, y) == ~Defined(lossyear[p]) \/ lossyear[p] = 0 \/ lossyear[p] + Epoch > y

\* C1: once the baseline band fc<yr_str> is built, a pixel is defined in it
\* (value 1) iff treecover2000 >= tree_cover and it has no loss at or before
\* yr_str, a lossyear of 0 or an undefined lossyear counting as no loss.
C1_BaselineMask ==
    BaselineBuilt =>
        /\ fc_str.name = Name("fc", yr_str)
        /\ \A p \in Pixels :
              /\ InBaseline(p) <=> (Defined(treecover2000[p]) /\ treecover2000[p] >= tree_cover /\ NoLossUpTo(p, yr_str))
              /\ InBaseline(p) => fc_str.px[p] = 1

\* C2: for every year y of [yr_str, yr_end] whose band fc<y> is built, a pixel
\* is defined in fc<y> (value 1) iff it is defined in the baseline band and its
\* lossyear is no year of (yr_str, y].
C2_ForestCover ==
    \A y \in FcYears : HasBand(fc_stack, Name("fc", y)) =>
        \A p \in Pixels :
            /\ DefAt(fc_stack, Name("fc", y), p)
                  <=> (InBaseline(p) /\ ~(Defined(lossyear[p]) /\ lossyear[p] + Epoch \in (yr_str + 1)..y))
            /\ DefAt(fc_stack, Name("fc", y), p) => Select(fc_stack, Name("fc", y)).px[p] = 1

C2_Witness ==
    /\ Finished
    /\ yr_end > yr_str + 1
    /\ \E p \in Pixels : DefAt(fc_stack, Name("fc", yr_str + 1), p) /\ ~DefAt(fc_stack, Name("fc", yr_end), p)
    /\ \E p \in Pixels : DefAt(fc_stack, Name("fc", yr_end), p)

\* C3: forest cover only shrinks: a pixel defined in fc<y> is defined in
\* fc<y-1>, and a pixel undefined in fc<y> is undefined in every later fc<z>.
C3_MonotonicShrinkage ==
    /\ \A y \in FlYears : HasBand(fc_stack, Name("fc", y)) =>
          \A p \in Pixels : DefAt(fc_stack, Name("fc", y), p) => DefAt(fc_stack, Name("fc", y - 1), p)
    /\ \A y \in FcYears : \A z \in FcYears :
          (y < z /\ HasBand(fc_stack, Name("fc", y)) /\ HasBand(fc_stack, Name("fc", z))) =>
              \A p \in Pixels : ~DefAt(fc_stack, Name("fc", y), p) => ~DefAt(fc_stack, Name("fc", z), p)

C3_Witness ==
    /\ Finished
    /\ yr_end > yr_str + 1
    /\ \E p \in Pixels :
          /\ DefAt(fc_stack, Name("fc", yr_str), p)
          /\ ~DefAt(fc_stack, Name("fc", yr_str + 1), p)
          /\ ~DefAt(fc_stack, Name("fc", yr_end), p)
    /\ \E p \in Pixels : ~InBaseline(p) /\ ~Defined(lossyear[p])

\* C4: an invalid configuration (a year outside the epoch bounds, yr_end <
\* yr_str, a threshold outside [0, 100]) is rejected before any band is built.
C4_EagerValidation == ~ValidConfig => ~BaselineBuilt

\* C5: for every year y of (yr_str, yr_end] whose band fl<y> is built, a pixel
\* is defined in fl<y> iff it is defined in the baseline band and its lossyear
\* is y - 2000; loss outside the baseline mask is counted in no fl<y>.
C5_AnnualLoss ==
    \A y \in FlYears : HasBand(fl_stack, Name("fl", y)) =>
        \A p \in Pixels :
            /\ DefAt(fl_stack, Name("fl", y), p) <=> (InBaseline(p) /\ lossyear[p] = y - Epoch)
            /\ DefAt(fl_stack, Name("fl", y), p) => Select(fl_stack, Name("fl", y)).px[p] = 1

C5_Witness ==
    /\ Finished
    /\ \E y \in FlYears : \E p \in Pixels : \E q \in Pixels :
          /\ DefAt(fl_stack, Name("fl", y), p)
          /\ lossyear[q] = y - Epoch
          /\ ~InBaseline(q)
          /\ ~DefAt(fl_stack, Name("fl", y), q)

\* C6: for every year y of [yr_str, yr_end] whose band cb<y> is built, cb<y> is
\* defined only where fc<y> is, and where fc<y> and the total carbon are both
\* defined cb<y> holds the total carbon.
C6_CarbonSubset ==
    \A y \in FcYears : HasBand(cb_stack, Name("cb", y)) =>
        \A p \in Pixels :
            /\ DefAt(cb_stack, Name("cb", y), p) => DefAt(fc_stack, Name("fc", y), p)
            /\ (DefAt(fc_stack, Name("fc", y), p) /\ Defined(tbcarbon[p]))
                  => Select(cb_stack, Name("cb", y)).px[p] = tbcarbon[p]

C6_Witness ==
    /\ Finished
    /\ \E y \in FcYears : \E p \in Pixels : \E q \in Pixels :
          /\ y > yr_str
          /\ DefAt(cb_stack, Name("cb", y), p)
          /\ InBaseline(q) /\ Defined(tbcarbon[q])
          /\ ~DefAt(fc_stack, Name("fc", y), q)
          /\ ~DefAt(cb_stack, Name("cb", y), q)

\* C7: no pixel is defined in the loss bands of two distinct years, nor in the
\* emission bands of two distinct years.
C7_LossExclusive ==
    \A y1 \in FlYears : \A y2 \in FlYears : y1 # y2 =>
        \A p \in Pixels :
            /\ ~(DefAt(fl_stack, Name("fl", y1), p) /\ DefAt(fl_stack, Name("fl", y2), p))
            /\ ~(DefAt(ce_stack, Name("ce", y1), p) /\ DefAt(ce_stack, Name("ce", y2), p))

C7_Witness ==
    /\ Finished
    /\ \E y1 \in FlYears : \E y2 \in FlYears : \E p \in Pixels : \E q \in Pixels :
          /\ y1 # y2
          /\ DefAt(fl_stack, Name("fl", y1), p) /\ DefAt(ce_stack, Name("ce", y1), p)
          /\ DefAt(fl_stack, Name("fl", y2), q) /\ DefAt(ce_stack, Name("ce", y2), q)

AreasBuilt == pc \in {"stats", "done"}

\* the pixels of region r defined in band i of the final stack
DefinedIn(i, r) == {p \in sa_area[r] : Defined(output[i].px[p])}

\* C8: every band of the final stack (fc, fl, cb, ce) is multiplied, pixel by
\* pixel, by the pixel area divided by 10000; and the fc<y> column of a region
\* that covers N pixels defined in fc<y>, each of area A, is N*A/10000.
C8_HectareConversion ==
    /\ AreasBuilt =>
          /\ Len(areas) = Len(output)
          /\ \A i \in 1..Len(output) : \A p \in Pixels :
                /\ areas[i].name = output[i].name
                /\ Defined(areas[i].px[p]) <=> Defined(output[i].px[p])
                /\ (Defined(output[i].px[p]) /\ pixelArea[p] % HaDivisor = 0)
                      => areas[i].px[p] = output[i].px[p] * (pixelArea[p] \div HaDivisor)
    /\ Finished =>
          \A r \in 1..Len(sa_area) : \A i \in 1..Len(output) : \A A \in {pixelArea[p] : p \in Pixels} :
              (output[i].name[1] = "fc" /\ \A p \in DefinedIn(i, r) : pixelArea[p] = A)
                  => /\ stats[r][i].name = output[i].name
                     /\ stats[r][i].sum * HaDivisor = Cardinality(DefinedIn(i, r)) * A

C8_Witness ==
    /\ Finished
    /\ \E i \in 1..Len(output) : \E j \in 1..Len(output) :
          /\ output[i].name[1] = "fc"
          /\ Cardinality(DefinedIn(i, 1)) = 2
          /\ \A p \in Pixels : pixelArea[p] = 20000
          /\ stats[1][i].sum = 4
          /\ output[j].name[1] = "ce"
          /\ \E p \in Pixels : Defined(areas[j].px[p])

NameSeq(prefix, a, b) == [i \in 1..(b - a + 1) |-> Name(prefix, a + i - 1)]

ExpectedNames ==
    NameSeq("fc", yr_str, yr_end) \o NameSeq("fl", yr_str + 1, yr_end)
        \o NameSeq("cb", yr_str, yr_end) \o NameSeq("ce", yr_str + 1, yr_end)

\* C9: when yr_str <= yr_end, the final stack holds exactly the bands fc<y>,
\* cb<y> for y of [yr_str, yr_end] and fl<y>, ce<y> for y of (yr_str, yr_end],
\* each once, in the order fc, fl, cb, ce and by year; and every band a loop
\* selects by name exists in the stack it is selected from.
C9_StackBands ==
    yr_str <= yr_end =>
        /\ pc \in {"areas", "stats", "done"} => [i \in 1..Len(output) |-> output[i].name] = ExpectedNames
        /\ (pc = "fc_loop" /\ k <= LoopLast) =>
              HasBand(fc_stack, Name("fc", k + Epoch - 1)) /\ HasBand(fl_stack, Name("fl", k + Epoch))
        /\ (pc = "cb_loop" /\ k <= LoopLast) => HasBand(fc_stack, Name("fc", k + Epoch))
        /\ (pc = "ce_loop" /\ k <= LoopLast) => HasBand(fl_stack, Name("fl", k + Epoch))

C9_Witness ==
    /\ Finished
    /\ yr_end = yr_str + 2
    /\ Len(output) = 10

FcLoopDone == pc \notin {"biomass", "baseline", "fl_init", "fl_loop", "fc_loop"}

\* C10: for every year y of (yr_str, yr_end], the pixels of fc<y-1> are those
\* of fc<y> and those of fl<y>, and no pixel is in both; so the baseline mask
\* is the disjoint union of fc<yr_end> and the fl<y>.
C10_Conservation ==
    /\ \A y \in FlYears : HasBand(fc_stack, Name("fc", y)) =>
          \A p \in Pixels :
              /\ DefAt(fc_stack, Name("fc", y - 1), p)
                    <=> (DefAt(fc_stack, Name("fc", y), p) \/ DefAt(fl_stack, Name("fl", y), p))
              /\ ~(DefAt(fc_stack, Name("fc", y), p) /\ DefAt(fl_stack, Name("fl", y), p))
    /\ (FcLoopDone /\ yr_str <= yr_end) =>
          \A p \in Pixels :
              /\ InBaseline(p)
                    <=> (DefAt(fc_stack, Name("fc", yr_end), p) \/ \E y \in FlYears : DefAt(fl_stack, Name("fl", y), p))
              /\ InBaseline(p) =>
                    Cardinality({y \in FlYears : DefAt(fl_stack, Name("fl", y), p)})
                        + (IF DefAt(fc_stack, Name("fc", yr_end), p) THEN 1 ELSE 0) = 1

C10_Witness ==
    /\ Finished
    /\ yr_end > yr_str
    /\ \E p \in Pixels : DefAt(fc_stack, Name("fc", yr_end), p)
    /\ \E p \in Pixels : \E y \in FlYears : DefAt(fl_stack, Name("fl", y), p)
====
